---- MODULE Spec2Model ----
(***************************************************************************)
(* Model of the face-recognition repository.                               *)
(*                                                                         *)
(*  utils.py : the SQLite-backed known-face store (load_known_faces,       *)
(*             add_known_face), the matcher and the recognition history    *)
(*             (recognize_face).                                           *)
(*  app.py   : the Streamlit script, one action per script rerun.          *)
(*                                                                         *)
(* Distances and confidences are fixed-point numbers in tenths: One is     *)
(* 1.0, Tolerance is 0.6.  A face encoding is a tuple of grid coordinates  *)
(* in the same unit.                                                       *)
(***************************************************************************)
EXTENDS Integers, Sequences, FiniteSets, TLC

VARIABLES
    known_faces,          \* committed rows of table known_faces, in rowid order
    recognition_history,  \* committed rows of table recognition_history
    add_pc,               \* position of the add_known_face call in flight
    add_txn,              \* rows inserted by add_known_face, not yet committed
    add_call,             \* the last add_known_face call and its outcome
    load_pc,              \* position of the load_known_faces call in flight
    load_rows,            \* rows fetched by load_known_faces (c.fetchall())
    loaded,               \* the caller's in-memory (encodings, names) copy
    rec,                  \* the last recognize_face call and what it returned
    uploaded_files,       \* app.py: the file_uploader widget's current files
    uploaded_images,      \* app.py: st.session_state.uploaded_images
    reference_img,        \* app.py: st.session_state.reference_img, <<>> for
                          \* None and <<idx>> for the index idx
    script,               \* app.py: how the last script run ended
    last_event,           \* app.py: the widget event that started the last run
    report                \* app.py: the PDF report the last run produced,
                          \* <<>> if it produced none

utilsVars == <<known_faces, recognition_history, add_pc, add_txn, add_call,
               load_pc, load_rows, loaded, rec>>
appVars == <<uploaded_files, uploaded_images, reference_img, script,
             last_event, report>>
vars == <<known_faces, recognition_history, add_pc, add_txn, add_call,
          load_pc, load_rows, loaded, rec,
          uploaded_files, uploaded_images, reference_img, script,
          last_event, report>>

-----------------------------------------------------------------------------
(* Bounds of the model *)

MaxKnown == 2        \* rows the known_faces table may hold
MaxHistory == 2      \* rows the recognition_history table may hold

(* Program constants *)

One == 10            \* the literal 1 of  1 - face_distances[...], in tenths
Tolerance == 6       \* compare_faces' acceptance radius 0.6, in tenths
ItemSize == 8        \* bytes of one np.float64

None == "None"
Unknown == "Unknown"
Names == {"alice", "bob"}

-----------------------------------------------------------------------------
(* Images.  An image is what the encoder sees in it (the faces, in the     *)
(* order the encoder returns them) and what has been drawn onto it.        *)

Face(loc, enc) == [location |-> loc, encoding |-> enc]
Picture(fs) == [readable |-> TRUE, faces |-> fs, drawn |-> <<>>]

Malformed == [readable |-> FALSE, faces |-> <<>>, drawn |-> <<>>]
NoFace == Picture(<<>>)
FaceA == Picture(<<Face(1, <<0, 3>>)>>)
FaceB == Picture(<<Face(1, <<3, 0>>)>>)
TwoFaces == Picture(<<Face(1, <<3, 3>>), Face(2, <<10, 3>>)>>)

\* the files add_known_face may be pointed at; image_path is the index
Photos == <<Malformed, NoFace, FaceA, FaceB, TwoFaces>>
\* the images recognize_face may be called on
Images == {Malformed, NoFace, FaceA, TwoFaces}

-----------------------------------------------------------------------------
(* numpy / face_recognition primitives the code calls *)

\* encoding.tobytes(): ItemSize little-endian bytes per component
RECURSIVE ByteOf(_, _)
ByteOf(c, k) == IF k = 0 THEN c % 256 ELSE ByteOf(c \div 256, k - 1)

ToBytes(enc) ==
    [i \in 1..(Len(enc) * ItemSize) |->
        ByteOf(enc[((i - 1) \div ItemSize) + 1], (i - 1) % ItemSize)]

\* the value of the ItemSize bytes after base, from byte k upwards
RECURSIVE ItemValue(_, _, _)
ItemValue(blob, base, k) ==
    IF k = ItemSize THEN 0
    ELSE blob[base + k + 1] + 256 * ItemValue(blob, base, k + 1)

\* np.frombuffer(encoding_blob, dtype=np.float64)
FromBuffer(blob) ==
    [j \in 1..(Len(blob) \div ItemSize) |-> ItemValue(blob, (j - 1) * ItemSize, 0)]

RECURSIVE SumSq(_, _, _)
SumSq(a, b, i) ==
    IF i > Len(a) THEN 0
    ELSE (a[i] - b[i]) * (a[i] - b[i]) + SumSq(a, b, i + 1)

\* the square root, rounded up to the grid
CeilSqrt(n) == CHOOSE r \in 0..n : r * r >= n /\ (r = 0 \/ (r - 1) * (r - 1) < n)

\* face_recognition.face_distance: Euclidean distance to every known encoding
FaceDistance(encs, e) == [i \in 1..Len(encs) |-> CeilSqrt(SumSq(encs[i], e, 1))]

\* face_recognition.compare_faces: distance <= tolerance, per known encoding
CompareFaces(encs, e) == [i \in 1..Len(encs) |-> FaceDistance(encs, e)[i] <= Tolerance]

\* variant of ArgMin: the last index of the minimum
ArgMinLast(ds) ==
    CHOOSE i \in 1..Len(ds) :
        /\ \A j \in 1..Len(ds) : ds[i] <= ds[j]
        /\ \A j \in (i + 1)..Len(ds) : ds[j] > ds[i]

\* np.argmin: the first index of the minimum
ArgMin(ds) ==
    CHOOSE i \in 1..Len(ds) :
        /\ \A j \in 1..Len(ds) : ds[i] <= ds[j]
        /\ \A j \in 1..(i - 1) : ds[j] > ds[i]

-----------------------------------------------------------------------------
(* utils.py: the known-face store *)

\* face_recognition.face_encodings(image): one encoding per detected face
FaceEncodings(image) == [i \in 1..Len(image.faces) |-> image.faces[i].encoding]

\* variant of RegisteredEncoding: the last detected face
LastEncoding(encodings) == encodings[Len(encodings)]

\* encoding = encodings[0]
RegisteredEncoding(encodings) == encodings[1]

\* variant of TableAfterExecute: the INSERT is visible at once, name first
DirtyExecute(table, row) == Append(table, [row EXCEPT !.encoding = <<>>])

\* c.execute("INSERT ...") inside the connection's open transaction: the
\* committed table, which is what other connections read, is as before
TableAfterExecute(table, row) == table

KnownFaceRow(name, encoding, path) ==
    [name |-> name, encoding |-> ToBytes(encoding), image_path |-> path]

\* variant of AddKnownFace: the row is written before the face check
AddWritesFirst(table, path, name) ==
    LET image == Photos[path]
        encodings == FaceEncodings(image)
    IN  IF ~image.readable
        THEN [outcome |-> "LoadError", txn |-> <<>>, table |-> table]
        ELSE IF Len(encodings) = 0
        THEN [outcome |-> "ValueError", txn |-> <<>>,
              table |-> Append(table, KnownFaceRow(name, <<>>, path))]
        ELSE [outcome |-> "pending",
              txn |-> <<KnownFaceRow(name, RegisteredEncoding(encodings), path)>>,
              table |-> table]

\* add_known_face up to and including c.execute: the outcome, the rows of the
\* open transaction and the committed table
AddKnownFace(table, path, name) ==
    LET image == Photos[path]
        encodings == FaceEncodings(image)
    IN  IF ~image.readable
        THEN [outcome |-> "LoadError", txn |-> <<>>, table |-> table]
        ELSE IF Len(encodings) = 0
        THEN [outcome |-> "ValueError", txn |-> <<>>, table |-> table]
        ELSE LET row == KnownFaceRow(name, RegisteredEncoding(encodings), path)
             IN  [outcome |-> "pending", txn |-> <<row>>,
                  table |-> TableAfterExecute(table, row)]

\* conn.commit(): the transaction's rows become the table's last rows
Commit(table, txn) == table \o txn

\* c.execute("SELECT name, encoding FROM known_faces"); c.fetchall()
FetchAll(table) == [i \in 1..Len(table) |-> <<table[i].name, table[i].encoding>>]

\* the loop of load_known_faces over the fetched rows, and its return value
BuildLists(fetched) ==
    [encodings |-> [i \in 1..Len(fetched) |-> FromBuffer(fetched[i][2])],
     names |-> [i \in 1..Len(fetched) |-> fetched[i][1]]]

\* load_known_faces as one call
LoadKnownFaces(table) == BuildLists(FetchAll(table))

-----------------------------------------------------------------------------
(* utils.py: recognize_face *)

\* variant of DefaultMatch
DefaultMatchFull == [name |-> Unknown, confidence |-> One]

\* name = "Unknown"; confidence = 0.0
DefaultMatch == [name |-> Unknown, confidence |-> 0]

\* variant of Accept: the best candidate is always taken
AcceptAny(matches, best_match_index) == TRUE

\* if matches[best_match_index]:
Accept(matches, best_match_index) == matches[best_match_index]

\* the body of the loop up to the two appends: one face against the store
MatchFace(known_face_encodings, known_face_names, face_encoding) ==
    LET matches == CompareFaces(known_face_encodings, face_encoding)
        face_distances == FaceDistance(known_face_encodings, face_encoding)
    IN  IF Len(face_distances) > 0
        THEN LET best_match_index == ArgMin(face_distances)
             IN  IF Accept(matches, best_match_index)
                 THEN [name |-> known_face_names[best_match_index],
                       confidence |-> One - face_distances[best_match_index]]
                 ELSE DefaultMatch
        ELSE DefaultMatch

\* variant of HistoryInsert: faces nobody recognised are not logged
HistoryInsertKnown(rows, m) ==
    IF m.name = Unknown THEN rows
    ELSE Append(rows, [name |-> m.name, confidence |-> m.confidence])

\* c.execute("INSERT INTO recognition_history ...") for one face
HistoryInsert(rows, m) == Append(rows, [name |-> m.name, confidence |-> m.confidence])

\* cv2.rectangle and cv2.putText for one face
Draw(image, location, m) ==
    [image EXCEPT !.drawn = Append(@, [rectangle |-> location,
                                       label |-> <<m.name, m.confidence>>])]

\* the state of the loop after the first i faces
RECURSIVE Loop(_, _, _, _)
Loop(image, known_face_encodings, known_face_names, i) ==
    IF i = 0
    THEN [image |-> image, recognized_names |-> <<>>, confidences |-> <<>>,
          inserted |-> <<>>]
    ELSE LET s == Loop(image, known_face_encodings, known_face_names, i - 1)
             f == image.faces[i]
             m == MatchFace(known_face_encodings, known_face_names, f.encoding)
         IN  [image |-> Draw(s.image, f.location, m),
              recognized_names |-> Append(s.recognized_names, m.name),
              confidences |-> Append(s.confidences, m.confidence),
              inserted |-> HistoryInsert(s.inserted, m)]

\* variant of EncoderError: the failure is swallowed and nothing is found
EncoderErrorSwallowed(image) ==
    [raised |-> FALSE, arg_image |-> image, ret_image |-> image,
     ret_is_arg |-> TRUE, recognized_names |-> <<>>, confidences |-> <<>>,
     inserted |-> <<>>]

\* cv2.cvtColor / face_locations / face_encodings raise: nothing in
\* recognize_face catches it, the database is not yet opened
EncoderError(image) ==
    [raised |-> TRUE, arg_image |-> image, ret_image |-> None,
     ret_is_arg |-> FALSE, recognized_names |-> None, confidences |-> None,
     inserted |-> <<>>]

\* variant of Returned: the annotations go onto a copy, the argument is kept
ReturnedCopy(image, s) ==
    [raised |-> FALSE, arg_image |-> image, ret_image |-> s.image,
     ret_is_arg |-> FALSE, recognized_names |-> s.recognized_names,
     confidences |-> s.confidences, inserted |-> s.inserted]

\* return image, recognized_names, confidences: image is the argument itself,
\* which cv2.rectangle and cv2.putText have drawn on
Returned(image, s) ==
    [raised |-> FALSE, arg_image |-> s.image, ret_image |-> s.image,
     ret_is_arg |-> TRUE, recognized_names |-> s.recognized_names,
     confidences |-> s.confidences, inserted |-> s.inserted]

\* recognize_face as one call: what it raises or returns, what it leaves in
\* the caller's image and the history rows it commits
RecognizeFace(image, known_face_encodings, known_face_names) ==
    IF ~image.readable
    THEN EncoderError(image)
    ELSE Returned(image, Loop(image, known_face_encodings, known_face_names,
                              Len(image.faces)))

-----------------------------------------------------------------------------
(* The database and the callers of utils.py *)

\* initialize_database(): both tables exist and are empty.  The app's session
\* starts with no file uploaded.
Init ==
    /\ known_faces = <<>>
    /\ recognition_history = <<>>
    /\ add_pc = "idle"
    /\ add_txn = <<>>
    /\ add_call = [outcome |-> "none"]
    /\ load_pc = "idle"
    /\ load_rows = <<>>
    /\ loaded = LoadKnownFaces(<<>>)
    /\ rec = [status |-> "none"]
    /\ uploaded_files = <<>>
    /\ uploaded_images = <<>>
    /\ reference_img = <<>>
    /\ script = "ok"
    /\ last_event = [kind |-> "start"]
    /\ report = <<>>

\* add_known_face(image_path, name), lines 51-65: load the photo, encode it,
\* raise if it shows no face, else INSERT inside a transaction
AddExecute(path, name) ==
    /\ add_pc = "idle"
    /\ Len(known_faces) < MaxKnown
    /\ LET r == AddKnownFace(known_faces, path, name)
       IN  /\ known_faces' = r.table
           /\ add_txn' = r.txn
           /\ add_pc' = IF r.outcome = "pending" THEN "inserted" ELSE "idle"
           /\ add_call' = [name |-> name, image_path |-> path, outcome |-> r.outcome]
    /\ UNCHANGED <<recognition_history, load_pc, load_rows, loaded, rec>>
    /\ UNCHANGED appVars

\* add_known_face, lines 66-69: conn.commit()
AddCommit ==
    /\ add_pc = "inserted"
    /\ known_faces' = Commit(known_faces, add_txn)
    /\ add_txn' = <<>>
    /\ add_pc' = "idle"
    /\ add_call' = [add_call EXCEPT !.outcome = "ok"]
    /\ UNCHANGED <<recognition_history, load_pc, load_rows, loaded, rec>>
    /\ UNCHANGED appVars

\* load_known_faces, lines 35-40: the SELECT reads the committed table
LoadSelect ==
    /\ load_pc = "idle"
    /\ load_rows' = FetchAll(known_faces)
    /\ load_pc' = "fetched"
    /\ UNCHANGED <<known_faces, recognition_history, add_pc, add_txn, add_call,
                   loaded, rec>>
    /\ UNCHANGED appVars

\* load_known_faces, lines 41-47: build the two lists and return them; the
\* caller keeps them as its copy of the store
LoadReturn ==
    /\ load_pc = "fetched"
    /\ loaded' = BuildLists(load_rows)
    /\ load_rows' = <<>>
    /\ load_pc' = "idle"
    /\ UNCHANGED <<known_faces, recognition_history, add_pc, add_txn, add_call, rec>>
    /\ UNCHANGED appVars

\* recognize_face(image, known_face_encodings, known_face_names) on the
\* caller's copy of the store.  Its INSERTs wait for the write lock, so a call
\* that logs anything runs when no add_known_face transaction is open.
Recognize(image) ==
    /\ Len(recognition_history) + Len(image.faces) <= MaxHistory
    /\ Len(image.faces) = 0 \/ add_pc = "idle"
    /\ LET r == RecognizeFace(image, loaded.encodings, loaded.names)
       IN  /\ rec' = [status |-> IF r.raised THEN "raised" ELSE "returned",
                      image |-> image,
                      arg_image |-> r.arg_image, ret_image |-> r.ret_image,
                      ret_is_arg |-> r.ret_is_arg,
                      recognized_names |-> r.recognized_names,
                      confidences |-> r.confidences]
           /\ recognition_history' = recognition_history \o r.inserted
    /\ UNCHANGED <<known_faces, add_pc, add_txn, add_call, load_pc, load_rows, loaded>>
    /\ UNCHANGED appVars

Next ==
    \/ \E path \in DOMAIN Photos, name \in Names : AddExecute(path, name)
    \/ AddCommit
    \/ LoadSelect
    \/ LoadReturn
    \/ \E image \in Images : Recognize(image)

Spec == Init /\ [][Next]_vars

-----------------------------------------------------------------------------
(* app.py: the Streamlit script.  Every widget event reruns the whole       *)
(* script against st.session_state.                                        *)

MaxFiles == 2        \* files the uploader may hold at once

\* an uploaded file: whether Image.open reads it, whether DeepFace finds a face
File(name, opens, face) == [name |-> name, opens |-> opens, face |-> face]
Files == {File("a.jpg", TRUE, TRUE), File("b.jpg", TRUE, TRUE),
          File("n.jpg", TRUE, FALSE), File("bad.png", FALSE, FALSE)}

\* what the uploader can hold: up to MaxFiles different files, in any order
FileLists ==
    {fs \in UNION {[1..n -> Files] : n \in 0..MaxFiles} :
        \A i, j \in DOMAIN fs : i # j => fs[i] # fs[j]}

\* lines 90-110: one dict per file Image.open could read, in upload order
RECURSIVE Rebuild(_)
Rebuild(files) ==
    IF files = <<>> THEN <<>>
    ELSE LET rest == Rebuild(SubSeq(files, 1, Len(files) - 1))
             f == files[Len(files)]
         IN  IF f.opens
             THEN Append(rest, [name |-> f.name, face |-> f.face, analysis |-> None,
                                comparison |-> None, temp_path |-> None])
             ELSE rest

\* lines 87-88: the list is rebuilt only when the uploader holds files
ProcessUploads(files, images) ==
    IF Len(files) > 0 THEN Rebuild(files) ELSE images

\* lines 117-122: the gallery button ref_<idx> that was clicked stores its index
Gallery(images, ref, event) ==
    IF event.kind = "set_reference" /\ event.idx < Len(images)
    THEN <<event.idx>>
    ELSE ref

\* line 126: uploaded_images[reference_img] raises IndexError out of range
ReferenceLookupRaises(images, ref) == ref # <<>> /\ ref[1] >= Len(images)

\* lines 248-259: every image gets a temp file and, if DeepFace.analyze
\* succeeds, its analysis
Analyze(images) ==
    [i \in 1..Len(images) |->
        [images[i] EXCEPT !.temp_path = "tmp",
                          !.analysis = IF images[i].face THEN "analysis" ELSE @]]

\* lines 262-275: every other image is compared with the reference
Compare(images, ref) ==
    IF ref = <<>> THEN images
    ELSE [i \in 1..Len(images) |->
            IF i - 1 = ref[1] THEN images[i]
            ELSE [images[i] EXCEPT !.comparison =
                    IF images[i].face /\ images[ref[1] + 1].face
                    THEN "comparison" ELSE @]]

\* lines 237-283
RunAnalysis(images, ref, event) ==
    IF Len(images) > 0 /\ event.kind = "run_analysis"
    THEN Compare(Analyze(images), ref)
    ELSE images

\* any(img.get('analysis') for img in st.session_state.uploaded_images)
AnyAnalysis(images) == \E i \in DOMAIN images : images[i].analysis # None

\* create_pdf_report(images_data, reference_idx): the reference image with its
\* analysis, then every other image with its comparison and its analysis
CreatePdfReport(images_data, reference_idx) ==
    [reference |->
        IF reference_idx = <<>> THEN <<>>
        ELSE <<[name |-> images_data[reference_idx[1] + 1].name,
                analysis |-> images_data[reference_idx[1] + 1].analysis]>>,
     comparisons |->
        [i \in DOMAIN images_data |->
            IF reference_idx # <<>> /\ i - 1 = reference_idx[1]
            THEN [name |-> images_data[i].name, skipped |-> TRUE]
            ELSE [name |-> images_data[i].name, skipped |-> FALSE,
                  comparison |-> images_data[i].comparison,
                  analysis |-> images_data[i].analysis]]]

\* lines 397-411: the report section exists only while some image of the
\* session state has an analysis, and its button makes the report
GenerateReport(images, ref, event) ==
    IF Len(images) > 0 /\ AnyAnalysis(images) /\ event.kind = "generate_pdf"
    THEN <<CreatePdfReport(images, ref)>>
    ELSE <<>>

\* one run of the script, top to bottom: the session state it leaves, the
\* report it made and how it ended
RunScript(files, images, ref, event) ==
    LET images1 == ProcessUploads(files, images)
        ref1 == Gallery(images1, ref, event)
        images2 == RunAnalysis(images1, ref1, event)
    IN  IF ReferenceLookupRaises(images1, ref1)
        THEN [uploaded_images |-> images1, reference_img |-> ref1,
              script |-> "IndexError", report |-> <<>>]
        ELSE [uploaded_images |-> images2, reference_img |-> ref1,
              script |-> "ok", report |-> GenerateReport(images2, ref1, event)]

Rerun(files, event) ==
    LET r == RunScript(files, uploaded_images, reference_img, event)
    IN  /\ uploaded_files' = files
        /\ uploaded_images' = r.uploaded_images
        /\ reference_img' = r.reference_img
        /\ script' = r.script
        /\ last_event' = event
        /\ report' = r.report
        /\ UNCHANGED utilsVars

\* the user adds or removes files in the uploader
ChangeUploads(files) ==
    /\ files # uploaded_files
    /\ Rerun(files, [kind |-> "upload"])

\* the user clicks the gallery's "Set as Reference" button of image idx; the
\* gallery of the last run showed one button per image
ClickSetReference(idx) ==
    /\ idx < Len(uploaded_images)
    /\ Rerun(uploaded_files, [kind |-> "set_reference", idx |-> idx])

\* the user clicks "Run Analysis", which the last run drew if it got that far
ClickRunAnalysis ==
    /\ script = "ok"
    /\ Len(uploaded_images) > 0
    /\ Rerun(uploaded_files, [kind |-> "run_analysis"])

\* the user clicks "Generate PDF Report", which the last run drew if it got
\* that far with an analysis in the session state
ClickGeneratePDF ==
    /\ script = "ok"
    /\ Len(uploaded_images) > 0
    /\ AnyAnalysis(uploaded_images)
    /\ Rerun(uploaded_files, [kind |-> "generate_pdf"])

NextApp ==
    \/ \E files \in FileLists : ChangeUploads(files)
    \/ \E idx \in 0..(MaxFiles - 1) : ClickSetReference(idx)
    \/ ClickRunAnalysis
    \/ ClickGeneratePDF

SpecApp == Init /\ [][NextApp]_vars

-----------------------------------------------------------------------------
(* Properties of recognize_face *)

\* a step in which recognize_face returned: only Recognize writes rec and the
\* history, and a call that changes neither found no face
RecognizeReturns ==
    /\ rec' # rec \/ recognition_history' # recognition_history
    /\ rec'.status = "returned"

\* the thresholds a caller may choose, 0.0 to 1.0
Thresholds == 0..One

\* the smallest distance in a non-empty tuple of distances
MinDistance(ds) == CHOOSE d \in {ds[j] : j \in DOMAIN ds} : \A j \in DOMAIN ds : d <= ds[j]

\* the store entries at the smallest distance from encoding e
Nearest(encs, e) ==
    LET ds == FaceDistance(encs, e)
    IN  {j \in DOMAIN ds : ds[j] = MinDistance(ds)}

\* the encoder's is-match test passes for the entries nearest to e
NearestIsMatch(encs, e) ==
    /\ Len(encs) > 0
    /\ \A j \in Nearest(encs, e) : CompareFaces(encs, e)[j]

UnknownResult(r, i) == r.recognized_names[i] = Unknown /\ r.confidences[i] = 0

\* the i-th result of the call r names a nearest entry of the store, with
\* confidence 1 - min_distance
NamedResult(r, i, store) ==
    LET e == r.image.faces[i].encoding
    IN  /\ \E j \in Nearest(store.encodings, e) : r.recognized_names[i] = store.names[j]
        /\ r.confidences[i] = One - MinDistance(FaceDistance(store.encodings, e))

\* C1, as claimed: a face gets a named identity only if the is-match test
\* passes for the nearest entry and the minimum distance is within the
\* threshold the caller chose, whatever that threshold is; otherwise the
\* result is Unknown with confidence 0
C1_Original ==
    [][RecognizeReturns =>
        \A t \in Thresholds : \A i \in DOMAIN rec'.image.faces :
            LET e == rec'.image.faces[i].encoding
                accepted ==
                    /\ NearestIsMatch(loaded.encodings, e)
                    /\ MinDistance(FaceDistance(loaded.encodings, e)) <= t
            IN  IF accepted THEN NamedResult(rec', i, loaded)
                ELSE UnknownResult(rec', i)]_vars

\* C1, amended: recognize_face takes no threshold.  A face gets a named
\* identity exactly if the encoder's is-match test (distance <= 0.6) passes for
\* the nearest entry of the store, then with confidence 1 - min_distance;
\* otherwise the result is Unknown with confidence 0.0
C1_MatchAccepted ==
    [][RecognizeReturns =>
        \A i \in DOMAIN rec'.image.faces :
            IF NearestIsMatch(loaded.encodings, rec'.image.faces[i].encoding)
            THEN NamedResult(rec', i, loaded) /\ rec'.recognized_names[i] \in Names
            ELSE UnknownResult(rec', i)]_vars

\* C1 witness: one call named a face at distance 0.3 and left a face beyond
\* the acceptance radius unknown, against a non-empty store
C1_Witness ==
    /\ rec.status = "returned"
    /\ rec.image = TwoFaces
    /\ rec.recognized_names = <<"alice", Unknown>>
    /\ rec.confidences = <<One - 3, 0>>

\* the history rows of the results of the call r, in order
ResultRows(r) ==
    [i \in DOMAIN r.recognized_names |->
        [name |-> r.recognized_names[i], confidence |-> r.confidences[i]]]

\* C2: a recognize call that completes on an image with k faces returns k
\* results in the encoder's order and appends exactly their k records, in
\* that order, to the history, Unknown ones included; the records that were
\* there stay as they were
C2_HistoryPerFace ==
    [][RecognizeReturns =>
        LET faces == rec'.image.faces
        IN  /\ Len(rec'.recognized_names) = Len(faces)
            /\ Len(rec'.confidences) = Len(faces)
            /\ \A i \in DOMAIN faces :
                /\ MatchFace(loaded.encodings, loaded.names, faces[i].encoding)
                     = [name |-> rec'.recognized_names[i],
                        confidence |-> rec'.confidences[i]]
                /\ rec'.ret_image.drawn[i].rectangle = faces[i].location
            /\ recognition_history' = recognition_history \o ResultRows(rec')]_vars

\* C2 witness: a call that named its face appended its record after the
\* record of an earlier unknown face
C2_Witness ==
    /\ rec.status = "returned"
    /\ Len(recognition_history) = 2
    /\ recognition_history[1] = [name |-> Unknown, confidence |-> 0]
    /\ recognition_history[2].name \in Names
    /\ rec.recognized_names = <<recognition_history[2].name>>

\* C4: against an empty store every detected face comes back Unknown with
\* confidence 0.0, and each still gets its history record
C4_EmptyStore ==
    [][(RecognizeReturns /\ loaded.encodings = <<>>) =>
        LET k == Len(rec'.image.faces)
        IN  /\ rec'.recognized_names = [i \in 1..k |-> Unknown]
            /\ rec'.confidences = [i \in 1..k |-> 0]
            /\ recognition_history' = recognition_history
                   \o [i \in 1..k |-> [name |-> Unknown, confidence |-> 0]]]_vars

\* C4 witness: two faces recognised against the empty store
C4_Witness ==
    /\ loaded.encodings = <<>>
    /\ rec.status = "returned"
    /\ rec.image = TwoFaces
    /\ rec.recognized_names = <<Unknown, Unknown>>
    /\ recognition_history = <<[name |-> Unknown, confidence |-> 0],
                               [name |-> Unknown, confidence |-> 0]>>

\* the least element of a non-empty set of indices
Lowest(S) == CHOOSE j \in S : \A k \in S : j <= k

\* C5: when several entries are at the same minimum distance from a face that
\* is named, the name is that of the tied entry with the lowest index in the
\* loaded store, which is the earliest-registered one: the loaded store lists
\* the rows in insertion order
C5_TieBreak ==
    [][RecognizeReturns =>
        /\ \A j \in DOMAIN loaded.names : loaded.names[j] = known_faces[j].name
        /\ \A i \in DOMAIN rec'.image.faces :
            LET tied == Nearest(loaded.encodings, rec'.image.faces[i].encoding)
            IN  (Cardinality(tied) >= 2 /\ rec'.recognized_names[i] # Unknown)
                    => rec'.recognized_names[i] = known_faces[Lowest(tied)].name]_vars

\* C5 witness: alice, registered first, and bob are equally near the first
\* face of the image, and alice is reported
C5_Witness ==
    /\ loaded.names = <<"alice", "bob">>
    /\ Cardinality(Nearest(loaded.encodings, TwoFaces.faces[1].encoding)) = 2
    /\ rec.status = "returned"
    /\ rec.image = TwoFaces
    /\ rec.recognized_names[1] = "alice"

\* C6: when the encoder fails on the image the call raises; it never returns
\* lists of results
C6_EncoderErrorPropagates ==
    (rec.status # "none" /\ ~rec.image.readable) =>
        (rec.status = "raised" /\ rec.recognized_names = None)

\* C6 witness: a call on a malformed image has raised
C6_Witness == rec.status = "raised" /\ rec.image = Malformed

\* one annotation per face of the call r, labelled with its result
Annotations(r) ==
    [i \in DOMAIN r.image.faces |->
        [rectangle |-> r.image.faces[i].location,
         label |-> <<r.recognized_names[i], r.confidences[i]>>]]

\* C9, as claimed: the annotations are on the returned image only, the
\* caller's input image is as it was before the call
C9_Original ==
    rec.status = "returned" =>
        /\ rec.ret_image.drawn = rec.image.drawn \o Annotations(rec)
        /\ rec.arg_image = rec.image

\* C9, amended: recognize_face draws the face regions and labels onto the
\* input image itself and returns that same image: after the call the
\* caller's image carries one annotation per detected face
C9_DrawsInPlace ==
    rec.status = "returned" =>
        /\ rec.ret_is_arg
        /\ rec.ret_image = rec.arg_image
        /\ rec.arg_image =
              [rec.image EXCEPT !.drawn = rec.image.drawn \o Annotations(rec)]

\* C9 witness: a call on an image with two faces has left two annotations in
\* the caller's image
C9_Witness ==
    /\ rec.status = "returned"
    /\ Len(rec.image.drawn) = 0
    /\ Len(rec.arg_image.drawn) = 2

-----------------------------------------------------------------------------
(* Properties of the known-face store *)

\* C3: add_known_face on a photo in which the encoder finds no face raises
\* the no-face error and leaves the persisted store as it was: no row is
\* inserted or left to be committed, and a load returns what it returned before
C3_NoFaceLeavesStore ==
    [][(/\ add_call' # add_call
        /\ Photos[add_call'.image_path].readable
        /\ Len(Photos[add_call'.image_path].faces) = 0)
       => /\ add_call'.outcome = "ValueError"
          /\ add_pc' = "idle"
          /\ add_txn' = <<>>
          /\ known_faces' = known_faces
          /\ LoadKnownFaces(known_faces') = LoadKnownFaces(known_faces)]_vars

\* C3 witness: the add of a photo without a face was refused while the store
\* held a row
C3_Witness ==
    /\ add_call.outcome = "ValueError"
    /\ Len(Photos[add_call.image_path].faces) = 0
    /\ Len(known_faces) >= 1

\* the entry add_known_face makes of a photo: the name and the whole encoding
\* of the first face the encoder finds in it
EntryOf(row) ==
    [name |-> row.name, encoding |-> FaceEncodings(Photos[row.image_path])[1]]

\* the (encodings, names) lists hold the complete entries of the first n adds
\* that have been committed
IsStoreOfFirst(lists, n) ==
    /\ Len(lists.encodings) = n
    /\ Len(lists.names) = n
    /\ \A i \in 1..n :
        /\ Len(FaceEncodings(Photos[known_faces[i].image_path])) > 0
        /\ lists.names[i] = EntryOf(known_faces[i]).name
        /\ lists.encodings[i] = EntryOf(known_faces[i]).encoding

\* C7: however add_known_face and load_known_faces interleave, what a load
\* has fetched and what it returns are two lists of equal length holding
\* complete entries: the store as it was before some add, or with that add's
\* whole entry, never a partly written one
C7_AtomicVisibility ==
    /\ \E n \in 0..Len(known_faces) : IsStoreOfFirst(loaded, n)
    /\ load_pc = "fetched" =>
          \E n \in 0..Len(known_faces) : IsStoreOfFirst(BuildLists(load_rows), n)

\* C7 witness: an add was committed while a load was between its SELECT and
\* its return, so the load is about to return the store without the new entry
C7_Witness ==
    /\ load_pc = "fetched"
    /\ add_call.outcome = "ok"
    /\ Len(load_rows) < Len(known_faces)
    /\ Len(loaded.names) < Len(load_rows)

\* a is b without b's last element
IsFront(a, b) == Len(b) = Len(a) + 1 /\ SubSeq(b, 1, Len(a)) = a

\* C8: the commit of an add puts the new entry (the name and the encoding of
\* the photo's first face) at the end of what load_known_faces returns, no
\* step ever takes an entry away again, and the caller's loaded copy changes
\* only when a load returns
C8_AddSeenByLaterLoads ==
    [][/\ (add_call.outcome = "pending" /\ add_call'.outcome = "ok") =>
            LET before == LoadKnownFaces(known_faces)
                after == LoadKnownFaces(known_faces')
                first == Photos[add_call.image_path].faces[1].encoding
            IN  /\ IsFront(before.encodings, after.encodings)
                /\ IsFront(before.names, after.names)
                /\ after.encodings[Len(after.encodings)] = first
                /\ after.names[Len(after.names)] = add_call.name
                /\ loaded' = loaded
       /\ SubSeq(LoadKnownFaces(known_faces').encodings, 1, Len(known_faces))
              = LoadKnownFaces(known_faces).encodings
       /\ SubSeq(LoadKnownFaces(known_faces').names, 1, Len(known_faces))
              = LoadKnownFaces(known_faces).names
       /\ loaded' # loaded =>
              /\ load_pc = "fetched" /\ load_pc' = "idle"
              /\ loaded' = BuildLists(load_rows)]_vars

\* C8 witness: a photo with two faces has been added and committed while the
\* caller still holds the copy it loaded before
C8_Witness ==
    /\ add_call.outcome = "ok"
    /\ Len(Photos[add_call.image_path].faces) = 2
    /\ Len(loaded.names) < Len(known_faces)
    /\ LoadKnownFaces(known_faces).encodings[Len(known_faces)] = TwoFaces.faces[1].encoding

-----------------------------------------------------------------------------
(* Properties of the Streamlit script *)

\* C10: after any sequence of script runs reference_img is None or an index
\* into uploaded_images, so the reference lookup never raises IndexError
C10_ReferenceInRange ==
    /\ reference_img = <<>> \/ reference_img[1] < Len(uploaded_images)
    /\ script # "IndexError"

\* the analysis and comparison results held in the session state
Results(images) ==
    [i \in DOMAIN images |->
        [name |-> images[i].name, analysis |-> images[i].analysis,
         comparison |-> images[i].comparison]]

\* C11: once Run Analysis has left at least one analysis in uploaded_images
\* and the same files stay uploaded, the next script run still finds the
\* analysis and comparison results there, and if that run was started by a
\* click on Generate PDF Report it makes a report that holds an analysis
C11_ResultsSurviveRerun ==
    [][(/\ script = "ok"
        /\ AnyAnalysis(uploaded_images)
        /\ Len(uploaded_files) > 0
        /\ uploaded_files' = uploaded_files
        /\ last_event'.kind = "generate_pdf")
       => /\ Results(uploaded_images') = Results(uploaded_images)
          /\ report' # <<>>
          /\ \/ \E i \in DOMAIN report'[1].comparisons :
                    /\ ~report'[1].comparisons[i].skipped
                    /\ report'[1].comparisons[i].analysis # None
             \/ \E i \in DOMAIN report'[1].reference :
                    report'[1].reference[i].analysis # None]_vars

====
